---- MODULE Spec2Model ----
(***************************************************************************)
(* Model of interview-ai: the SimpleCache LRU store (core/cache.py), the   *)
(* graph node operators (core/operators.py) and the InterviewClient        *)
(* start / next / end calls (clients/interview_client.py).                 *)
(*                                                                         *)
(* servers/interview_server.py (the graph wiring) and core/utilities.py    *)
(* (load_cache, load_interview_rules) are not part of the sources at hand; *)
(* the definitions that stand for them follow spec.md and are marked as    *)
(* such where they are defined.                                            *)
(***************************************************************************)
EXTENDS Integers, Sequences, FiniteSets, TLC

VARIABLES
    cache,      \* the SimpleCache object: [od |-> OrderedDict as a sequence, oldest first; maxsize]
    touched,    \* ghost: distinct keys of the cache in order of their last touch, oldest first
    lastSet,    \* ghost: key -> [hit, value] of the most recent set on that key
    ret,        \* outcome of the last cache call: [op, key, hit, value]
    store,      \* the checkpointer: thread_id -> checkpointed graph state, or NoCheckpoint
    now,        \* datetime.now(timezone.utc), in seconds
    last,       \* the last client call: what was asked and what came back
    calls,      \* ghost: thread_id -> number of next calls that returned (did not raise)
    cycles,     \* ghost: thread_id -> number of next calls that ran the graph and returned
    threads,    \* caller -> where its next call stands, and the locals of that call
    ran         \* a node function applied on its own: the state given and what came out

cacheGhost == <<touched, lastSet, ret>>
sessionVars == <<store, now, last, calls, cycles, threads, ran>>
vars == <<cache, touched, lastSet, ret, store, now, last, calls, cycles, threads, ran>>

-----------------------------------------------------------------------------
(* Bounds of the model *)

\* largest maxsize a stand-alone SimpleCache is constructed with
MaxCap == 2
\* number of distinct keys used against the stand-alone cache
NumKeys == 3

Keys == 1..NumKeys
\* cache values are dicts; two distinguishable ones
Values == {[phase |-> "introduction"], [phase |-> "q&a"]}

\* Python's None
None == [none |-> TRUE]

-----------------------------------------------------------------------------
(* core/cache.py: SimpleCache over an OrderedDict *)

\* key in self.cache
Contains(od, key) == \E i \in 1..Len(od) : od[i].key = key

IndexOf(od, key) == CHOOSE i \in 1..Len(od) : od[i].key = key

\* self.cache[key]
Lookup(od, key) == od[IndexOf(od, key)].value

KeysOf(od) == {od[i].key : i \in 1..Len(od)}

\* OrderedDict.move_to_end(key): the entry becomes the last (most recent) one
MoveToEnd(od, key) ==
    LET i == IndexOf(od, key)
    IN  SubSeq(od, 1, i - 1) \o SubSeq(od, i + 1, Len(od)) \o <<od[i]>>

\* self.cache[key] = value: replaces in place when present, appends otherwise
SetItemAppends(od, key, value) == Append(od, [key |-> key, value |-> value])
SetItem(od, key, value) ==
    IF Contains(od, key)
    THEN [od EXCEPT ![IndexOf(od, key)] = [key |-> key, value |-> value]]
    ELSE Append(od, [key |-> key, value |-> value])

\* OrderedDict.popitem(last=False): drops the oldest entry
PopOldest(od) == Tail(od)

\* SimpleCache(maxsize)
SimpleCache(maxsize) == [od |-> <<>>, maxsize |-> maxsize]

\* SimpleCache.get: the returned value, None on a miss
GetValue(c, key) == IF Contains(c.od, key) THEN Lookup(c.od, key) ELSE None

\* SimpleCache.get: the cache after the call (a hit moves the key to the end)
GetStateNoMove(c, key) == c
GetState(c, key) ==
    IF Contains(c.od, key) THEN [c EXCEPT !.od = MoveToEnd(c.od, key)] ELSE c

\* SimpleCache.set: the cache after the call
SetStateNoEvict(c, key, value) ==
    [c EXCEPT !.od = SetItem(IF Contains(c.od, key) THEN MoveToEnd(c.od, key) ELSE c.od,
                             key, value)]
SetState(c, key, value) ==
    LET moved  == IF Contains(c.od, key) THEN MoveToEnd(c.od, key) ELSE c.od
        stored == SetItem(moved, key, value)
    IN  [c EXCEPT !.od = IF Len(stored) > c.maxsize THEN PopOldest(stored) ELSE stored]

-----------------------------------------------------------------------------
(* Ghost bookkeeping of touches, kept apart from the OrderedDict *)

Without(seq, key) == SelectSeq(seq, LAMBDA x : x # key)

Touch(seq, key) == Append(Without(seq, key), key)

\* the (at most n) most recently touched keys
RecentKeys(seq, n) ==
    {seq[i] : i \in {j \in 1..Len(seq) : j > Len(seq) - n}}

-----------------------------------------------------------------------------
(* core/schemas.py: InterviewState, and the messages of its history *)

InfoKeys == {"name", "role", "companies"}

\* candidate_information = {}
EmptyInfo == [k \in {} |-> ""]

\* a BaseMessage: its type, its content, and what the content was dumped from
Message(type, content, info, answers) ==
    [type |-> type, content |-> content, info |-> info, answers |-> answers]

\* the channels of a thread nothing was written to yet; next is the node the run stopped before
EmptyState ==
    [messages |-> <<>>, questions |-> <<>>, answers |-> <<>>,
     candidate_information |-> EmptyInfo, rules |-> None, phase |-> "",
     next |-> "__start__", ts |-> 0]

NoCheckpoint == [absent |-> TRUE]

\* interrupt(value) called with no resume value at hand
NoResume == [given |-> FALSE, value |-> ""]

\* Command(resume=value)
Resume(value) == [given |-> TRUE, value |-> value]

\* what a node hands back to the graph: an update of the state, a GraphInterrupt, or an exception
Update(state) == [kind |-> "update", state |-> state, value |-> ""]
Interrupt(state, value) == [kind |-> "interrupt", state |-> state, value |-> value]
Raise(state, error) == [kind |-> "error", state |-> state, value |-> error]

-----------------------------------------------------------------------------
(* core/operators.py: the graph nodes *)

\* the first candidate field that is not collected yet
MissingFieldRoleFirst(info) ==
    IF "role" \notin DOMAIN info THEN "role"
    ELSE IF "name" \notin DOMAIN info THEN "name"
    ELSE IF "companies" \notin DOMAIN info THEN "companies"
    ELSE "none"
MissingField(info) ==
    IF "name" \notin DOMAIN info THEN "name"
    ELSE IF "role" \notin DOMAIN info THEN "role"
    ELSE IF "companies" \notin DOMAIN info THEN "companies"
    ELSE "none"

FieldPromptRoleLast(field) ==
    CASE field = "name" -> "Please enter your full name"
      [] field = "role" -> "Please enter comma separated names of companies you prefer"
      [] field = "companies" -> "Job role you want to interview for"
FieldPrompt(field) ==
    CASE field = "name" -> "Please enter your full name"
      [] field = "role" -> "Job role you want to interview for"
      [] field = "companies" -> "Please enter comma separated names of companies you prefer"

candidate_information_collection_stays(state, resume) ==
    IF state.phase = "reporting" THEN Update(state)
    ELSE
        LET user_information == state.candidate_information
            field == MissingField(user_information)
            filled == IF field = "none" THEN user_information
                      ELSE user_information @@ (field :> resume.value)
        IN  IF field # "none" /\ ~resume.given
            THEN Interrupt(state, FieldPrompt(field))
            ELSE Update([state EXCEPT
                    !.messages = Append(@, Message("human", "candidate_information", filled, <<>>)),
                    !.candidate_information = filled,
                    !.phase = "introduction"])

candidate_information_collection_early(state, resume) ==
    IF state.phase = "reporting" THEN Update(state)
    ELSE
        LET user_information == state.candidate_information
            field == MissingField(user_information)
            filled == IF field = "none" THEN user_information
                      ELSE user_information @@ (field :> resume.value)
            phase == IF field = "role" THEN "execution" ELSE "introduction"
        IN  IF field # "none" /\ ~resume.given
            THEN Interrupt(state, FieldPrompt(field))
            ELSE Update([state EXCEPT
                    !.messages = Append(@, Message("human", "candidate_information", filled, <<>>)),
                    !.candidate_information = filled,
                    !.phase = phase])

candidate_information_collection_forgets(state, resume) ==
    IF state.phase = "reporting" THEN Update(state)
    ELSE
        LET user_information == state.candidate_information
            field == MissingField(user_information)
            filled == IF field = "none" THEN user_information
                      ELSE (field :> resume.value)
            phase == IF field = "companies" THEN "execution" ELSE "introduction"
        IN  IF field # "none" /\ ~resume.given
            THEN Interrupt(state, FieldPrompt(field))
            ELSE Update([state EXCEPT
                    !.messages = Append(@, Message("human", "candidate_information", filled, <<>>)),
                    !.candidate_information = filled,
                    !.phase = phase])

candidate_information_collection_function(state, resume) ==
    IF state.phase = "reporting" THEN Update(state)
    ELSE
        LET user_information == state.candidate_information
            field == MissingField(user_information)
            filled == IF field = "none" THEN user_information
                      ELSE user_information @@ (field :> resume.value)
            phase == IF field = "companies" THEN "execution" ELSE "introduction"
        IN  IF field # "none" /\ ~resume.given
            THEN Interrupt(state, FieldPrompt(field))
            ELSE Update([state EXCEPT
                    !.messages = Append(@, Message("human", "candidate_information", filled, <<>>)),
                    !.candidate_information = filled,
                    !.phase = phase])

\* the questions the questioner model answers with: the texts of `n` questions
QuestionTexts == <<"question 1", "question 2", "question 3", "question 4">>
Questions(n) == SubSeq(QuestionTexts, 1, n)

\* a model.invoke(messages) that does not hand back the structured output: the call
\* raises (a transport error or timeout, still there when the node's retries are used up),
\* or the output does not parse into the schema and the node cannot dump it
TransientFailure == <<"CollaboratorTransientFailure">>
MalformedOutput == <<"MalformedCollaboratorOutput">>
Failures == {TransientFailure, MalformedOutput}

question_generation_sets_phase(state, questions) ==
    Update([state EXCEPT
        !.messages = Append(@, Message("ai", "questions_json", EmptyInfo, <<>>)),
        !.questions = questions,
        !.phase = "q&a"])

question_generation_function(state, questions) ==
    IF questions \in Failures THEN Raise(state, questions[1])
    ELSE Update([state EXCEPT
        !.messages = Append(@, Message("ai", "questions_json", EmptyInfo, <<>>)),
        !.questions = questions])

answer_collection_never_last(state, resume) ==
    LET questions == state.questions
        answers == state.answers
    IN  IF Len(answers) >= Len(questions) THEN Raise(state, "IndexError")
        ELSE
            LET question == questions[Len(answers) + 1]
                answer == [question |-> question, answer |-> resume.value]
            IN  IF ~resume.given THEN Interrupt(state, question)
                ELSE Update([state EXCEPT !.answers = answers \o <<answer>>,
                                          !.phase = "q&a"])

answer_collection_keeps_one(state, resume) ==
    LET questions == state.questions
        answers == state.answers
    IN  IF Len(answers) >= Len(questions) THEN Raise(state, "IndexError")
        ELSE
            LET question == questions[Len(answers) + 1]
                answer == [question |-> question, answer |-> resume.value]
            IN  IF ~resume.given THEN Interrupt(state, question)
                ELSE IF Len(answers) + 1 < Len(questions)
                THEN Update([state EXCEPT !.answers = <<answer>>,
                                          !.phase = "q&a"])
                ELSE Update([state EXCEPT
                        !.messages = Append(@, Message("human", "answers", EmptyInfo, answers)),
                        !.answers = <<answer>>,
                        !.phase = "evaluation"])

answer_collection_function(state, resume) ==
    LET questions == state.questions
        answers == state.answers
    IN  IF Len(answers) >= Len(questions) THEN Raise(state, "IndexError")
        ELSE
            LET question == questions[Len(answers) + 1]
                answer == [question |-> question, answer |-> resume.value]
            IN  IF ~resume.given THEN Interrupt(state, question)
                ELSE IF Len(answers) + 1 < Len(questions)
                THEN Update([state EXCEPT !.answers = answers \o <<answer>>,
                                          !.phase = "q&a"])
                ELSE Update([state EXCEPT
                        !.messages = Append(@, Message("human", "answers", EmptyInfo, answers)),
                        !.answers = answers \o <<answer>>,
                        !.phase = "evaluation"])

evaluation_function_silent(state, evaluation) ==
    IF evaluation \in Failures THEN Raise(state, evaluation[1])
    ELSE Update(state)

\* `evaluation` is what the evaluator model answers with
evaluation_function(state, evaluation) ==
    IF evaluation \in Failures THEN Raise(state, evaluation[1])
    ELSE Update([state EXCEPT
        !.messages = Append(@, Message("ai", "evaluation_json", EmptyInfo, <<>>))])

interview_perception_skips(state) ==
    LET user_information == state.candidate_information
    IN  IF state.rules = None \/ ~({"role", "companies"} \subseteq DOMAIN user_information)
        THEN Raise(state, "KeyError")
        ELSE Update(state)

interview_perception_appends(state) ==
    LET user_information == state.candidate_information
    IN  IF state.rules = None \/ ~({"role", "companies"} \subseteq DOMAIN user_information)
        THEN Raise(state, "KeyError")
        ELSE Update([state EXCEPT
                !.messages = Append(@, Message("system", "INTERVIEWBOT_PROMPT", user_information, <<>>))])

interview_perception_function(state) ==
    LET user_information == state.candidate_information
    IN  IF state.rules = None \/ ~({"role", "companies"} \subseteq DOMAIN user_information)
        THEN Raise(state, "KeyError")
        ELSE Update([state EXCEPT
                !.messages = <<Message("system", "INTERVIEWBOT_PROMPT", user_information, <<>>)>> \o @])

phase_router_no_introduction(state) ==
    IF state.phase = "reporting" THEN "reporting_node"
    ELSE IF state.phase = "q&a" THEN "answer_collection_node"
    ELSE IF state.phase = "evaluation" THEN "evaluation_node"
    ELSE "perception_node"

phase_router_no_answers(state) ==
    IF state.phase = "reporting" THEN "reporting_node"
    ELSE IF state.phase = "introduction" THEN "candidate_information_collection_node"
    ELSE IF state.phase = "evaluation" THEN "evaluation_node"
    ELSE "perception_node"

phase_router_function(state) ==
    IF state.phase = "reporting" THEN "reporting_node"
    ELSE IF state.phase = "introduction" THEN "candidate_information_collection_node"
    ELSE IF state.phase = "q&a" THEN "answer_collection_node"
    ELSE IF state.phase = "evaluation" THEN "evaluation_node"
    ELSE "perception_node"

reporting_function(state) ==
    Update([state EXCEPT
        !.messages = Append(@, Message("ai", "report", EmptyInfo, <<>>))])

-----------------------------------------------------------------------------
(* The compiled graph `interviewbot` (servers/interview_server.py, wiring after  *)
(* spec.md section 4.2): the router picks the node at entry and after the two   *)
(* suspending nodes; perception leads to question generation and that to        *)
(* answer collection; evaluation and reporting end the run.                     *)

\* one node run on the state; `resume` reaches the node the run resumes in, `questions`
\* is what the model asked in the run answers with: the questions of the questioner model,
\* or the failure of the questioner or evaluator model
RunNode(node, state, resume, questions) ==
    CASE node = "candidate_information_collection_node" ->
            candidate_information_collection_function(state, resume)
      [] node = "perception_node" -> interview_perception_function(state)
      [] node = "question_generation_node" -> question_generation_function(state, questions)
      [] node = "answer_collection_node" -> answer_collection_function(state, resume)
      [] node = "evaluation_node" -> evaluation_function(state, questions)
      [] node = "reporting_node" -> reporting_function(state)

NodeAfter(node, state) ==
    CASE node = "candidate_information_collection_node" -> phase_router_function(state)
      [] node = "perception_node" -> "question_generation_node"
      [] node = "question_generation_node" -> "answer_collection_node"
      [] node = "answer_collection_node" -> phase_router_function(state)
      [] node = "evaluation_node" -> "__end__"
      [] node = "reporting_node" -> "__end__"

\* runs nodes from `node` on until one interrupts, one raises, or the graph ends;
\* the checkpoint kept is the state before the node that did not complete
RECURSIVE RunGraph(_, _, _, _)
RunGraph(node, state, resume, questions) ==
    IF node = "__end__" THEN [kind |-> "end", state |-> [state EXCEPT !.next = node], value |-> ""]
    ELSE
        LET out == RunNode(node, state, resume, questions)
        IN  IF out.kind = "update"
            THEN RunGraph(NodeAfter(node, out.state), out.state, NoResume, questions)
            ELSE [out EXCEPT !.state = [state EXCEPT !.next = node]]

\* interviewbot.invoke(input, config): the input is written to the channels and the
\* graph runs from its entry
InvokeInput(state, message, phase, rules, questions) ==
    LET written == [state EXCEPT
            !.messages = Append(@, Message("human", message, EmptyInfo, <<>>)),
            !.phase = phase,
            !.rules = rules]
    IN  RunGraph(phase_router_function(written), written, NoResume, questions)

\* interviewbot.invoke(Command(resume=value), config): the run goes on in the node it stopped before
InvokeResume(state, value, questions) ==
    RunGraph(state.next, state, Resume(value), questions)

\* response["messages"][-1].content
LastContent(state) == state.messages[Len(state.messages)].content

-----------------------------------------------------------------------------
(* core/settings.py, core/utilities.py: configuration *)

\* Settings.max_intro_questions
max_intro_questions == 3

\* SimpleCache.__init__'s default maxsize, the one the module-level `cache` has
MaxSizeOne == 2 - 1
DefaultMaxSize == 128

\* the interview formats of the configuration, as load_interview_rules returns them;
\* "short" is the rule set of the tests, "quick" has no time_frame beyond the 5 seconds
Formats == {"short", "quick"}
load_interview_rules(interview_format) ==
    CASE interview_format = "short" ->
            [format |-> "short", time_frame |-> 1, no_of_questions |-> 1]
      [] interview_format = "quick" ->
            [format |-> "quick", time_frame |-> 0, no_of_questions |-> 2]

\* load_cache(thread_id, interviewbot): the cache entry, on a miss the entry rebuilt from
\* the thread's checkpoint, and no entry at all for a thread the checkpointer does not know
RebuiltEntry(state) ==
    [last_message |->
        IF state.next = "__end__"
        THEN [text |-> LastContent(state), type |-> "text"]
        ELSE [text |-> RunNode(state.next, state, NoResume, <<>>).value, type |-> "interrupt"],
     last_updated |-> state.ts,
     count |-> Cardinality(DOMAIN state.candidate_information) + Len(state.answers)]

load_cache(c, checkpoints, thread_id) ==
    IF Contains(c.od, thread_id)
    THEN [found |-> TRUE, data |-> GetValue(c, thread_id), cache |-> GetState(c, thread_id)]
    ELSE IF checkpoints[thread_id] = NoCheckpoint
    THEN [found |-> FALSE, data |-> None, cache |-> c]
    ELSE [found |-> TRUE, data |-> RebuiltEntry(checkpoints[thread_id]), cache |-> c]

-----------------------------------------------------------------------------
(* clients/interview_client.py: InterviewClient *)

\* bounds of the sessions explored
\* the clock stops at MaxNow seconds
MaxNow == 6
\* the questioner model answers with 0..MaxQuestions questions
MaxQuestions == 2
\* next calls that return, per thread
MaxCalls == 6

\* the uuids start may draw; an interview_config that is absent is NoConfig
ThreadIds == {"t1", "t2"}
NoConfig == "none"
\* what the candidate may send
UserMessages == {"", "ada"}
\* seconds the clock may jump at once
TickSteps == {3}

\* InterviewClient.__init__: self.interview_rules and self.max_questions of a client
interview_rules(interview_format) == load_interview_rules(interview_format)
max_questions(interview_format) ==
    interview_rules(interview_format).no_of_questions + max_intro_questions

\* cached_data["count"] >= self.max_questions
AtCeilingOffByOne(count, interview_format) == count > max_questions(interview_format)
AtCeiling(count, interview_format) == count >= max_questions(interview_format)

\* timedelta(minutes=time_frame, seconds=5), in seconds
ExpiryWindow(rules) == rules.time_frame * 60 + 5

check_answer_expiry_never(rules, user_message, last_updated, t) == user_message
check_answer_expiry_not_strict(rules, user_message, last_updated, t) ==
    IF last_updated <= t - ExpiryWindow(rules) THEN "" ELSE user_message
check_answer_expiry(rules, user_message, last_updated, t) ==
    IF last_updated < t - ExpiryWindow(rules) THEN "" ELSE user_message

\* what a call hands back to its caller
Returned(op, config, fmt, message, kind, text, resumed, invoked) ==
    [op |-> op, config |-> config, format |-> fmt, message |-> message,
     kind |-> kind, text |-> text, resumed |-> resumed, invoked |-> invoked]

NoCall == Returned("none", NoConfig, "", "", "none", "", NoResume, FALSE)

\* the dict start stores: cached_data
StartEntryCountOne(text, t) ==
    [last_message |-> [text |-> text, type |-> "interrupt"], last_updated |-> t, count |-> 1]
StartEntry(text, t) ==
    [last_message |-> [text |-> text, type |-> "interrupt"], last_updated |-> t, count |-> 0]

\* InterviewClient.start, by a client of format `fmt`; uuid4 draws `id`
start(fmt, id) ==
    /\ store[id] = NoCheckpoint
    /\ LET response == InvokeInput(EmptyState, "Start Interview", "introduction",
                                   interview_rules(fmt), <<>>)
       IN  /\ response.kind = "interrupt"
           /\ store' = [store EXCEPT ![id] = [response.state EXCEPT !.ts = now]]
           /\ cache' = SetState(cache, id, StartEntry(response.value, now))
           /\ last' = Returned("start", id, fmt, "", "message", response.value, NoResume, TRUE)
    /\ UNCHANGED <<now, calls, cycles, cacheGhost, threads, ran>>

\* lines 69-78: cached_data["last_message"] after the graph returned
LastMessageAsText(response) ==
    [text |-> IF response.kind = "interrupt" THEN response.value
              ELSE LastContent(response.state),
     type |-> "text"]
LastMessage(response) ==
    IF response.kind = "interrupt"
    THEN [text |-> response.value, type |-> "interrupt"]
    ELSE [text |-> LastContent(response.state), type |-> "text"]

\* lines 57-67: the graph call of next
NextResponseExpiresText(fmt, cached_data, state, user_message, questions, t) ==
    LET message == check_answer_expiry(interview_rules(fmt), user_message,
                                       cached_data.last_updated, t)
    IN  IF cached_data.last_message.type = "interrupt"
        THEN InvokeResume(state, message, questions)
        ELSE InvokeInput(state, message, "evaluation", interview_rules(fmt), questions)

NextResponseReports(fmt, cached_data, state, user_message, questions, t) ==
    IF cached_data.last_message.type = "interrupt"
    THEN InvokeResume(state,
            check_answer_expiry(interview_rules(fmt), user_message, cached_data.last_updated, t),
            questions)
    ELSE InvokeInput(state, user_message, "reporting", interview_rules(fmt), questions)

NextResponseExecutes(fmt, cached_data, state, user_message, questions, t) ==
    IF cached_data.last_message.type = "interrupt"
    THEN InvokeResume(state,
            check_answer_expiry(interview_rules(fmt), user_message, cached_data.last_updated, t),
            questions)
    ELSE InvokeInput(state, user_message, "execution", interview_rules(fmt), questions)

NextResponseAsksAgain(fmt, cached_data, state, user_message, questions, t) ==
    IF cached_data.last_message.type = "interrupt"
    THEN InvokeResume(state,
            check_answer_expiry(interview_rules(fmt), user_message, cached_data.last_updated, t),
            questions)
    ELSE InvokeInput(state, user_message, "q&a", interview_rules(fmt), questions)

NextResponse(fmt, cached_data, state, user_message, questions, t) ==
    IF cached_data.last_message.type = "interrupt"
    THEN InvokeResume(state,
            check_answer_expiry(interview_rules(fmt), user_message, cached_data.last_updated, t),
            questions)
    ELSE InvokeInput(state, user_message, "evaluation", interview_rules(fmt), questions)

\* the value the graph is resumed with, NoResume when it is invoked with a fresh input
ResumedWith(fmt, cached_data, user_message, t) ==
    IF cached_data.last_message.type = "interrupt"
    THEN Resume(check_answer_expiry(interview_rules(fmt), user_message,
                                    cached_data.last_updated, t))
    ELSE NoResume

\* lines 80-81: the entry next writes back
NextEntryNoCount(cached_data, response, t) ==
    [last_message |-> LastMessage(response), last_updated |-> t, count |-> cached_data.count]
NextEntry(cached_data, response, t) ==
    [last_message |-> LastMessage(response), last_updated |-> t, count |-> cached_data.count + 1]

\* next with the count and the time written back before the graph is called
NextCallCountsFirst(fmt, id, user_message, questions) ==
    LET loaded == load_cache(cache, store, id)
        cached_data == loaded.data
    IN  /\ loaded.found
        /\ calls[id] < MaxCalls
        /\ IF AtCeiling(cached_data.count, fmt)
           THEN /\ cache' = loaded.cache
                /\ last' = Returned("next", id, fmt, user_message, "end", "__end__", NoResume, FALSE)
                /\ calls' = [calls EXCEPT ![id] = @ + 1]
                /\ UNCHANGED <<store, cycles>>
           ELSE LET response == NextResponse(fmt, cached_data, store[id], user_message, questions, now)
                    resumed == ResumedWith(fmt, cached_data, user_message, now)
                    entry == NextEntry(cached_data, response, now)
                IN  /\ store' = [store EXCEPT ![id] = [response.state EXCEPT !.ts = now]]
                    /\ IF response.kind = "error"
                       THEN /\ cache' = SetState(loaded.cache, id,
                                    [cached_data EXCEPT !.count = @ + 1, !.last_updated = now])
                            /\ last' = Returned("next", id, fmt, user_message, "error",
                                                response.value, resumed, TRUE)
                            /\ UNCHANGED <<calls, cycles>>
                       ELSE /\ cache' = SetState(loaded.cache, id, entry)
                            /\ last' = Returned("next", id, fmt, user_message,
                                    IF AtCeiling(entry.count, fmt) THEN "end" ELSE "message",
                                    IF AtCeiling(entry.count, fmt) THEN "__end__"
                                    ELSE entry.last_message.text,
                                    resumed, TRUE)
                            /\ calls' = [calls EXCEPT ![id] = @ + 1]
                            /\ cycles' = [cycles EXCEPT ![id] = @ + 1]
        /\ UNCHANGED <<now, cacheGhost, threads>>

\* InterviewClient.next on a thread load_cache finds, by a client of format `fmt`;
\* `questions` is what the questioner model would answer with
NextCall(fmt, id, user_message, questions) ==
    LET loaded == load_cache(cache, store, id)
        cached_data == loaded.data
    IN  /\ loaded.found
        /\ calls[id] < MaxCalls
        /\ IF AtCeiling(cached_data.count, fmt)
           THEN /\ cache' = loaded.cache
                /\ last' = Returned("next", id, fmt, user_message, "end", "__end__", NoResume, FALSE)
                /\ calls' = [calls EXCEPT ![id] = @ + 1]
                /\ UNCHANGED <<store, cycles>>
           ELSE LET response == NextResponse(fmt, cached_data, store[id], user_message, questions, now)
                    resumed == ResumedWith(fmt, cached_data, user_message, now)
                    entry == NextEntry(cached_data, response, now)
                IN  /\ store' = [store EXCEPT ![id] = [response.state EXCEPT !.ts = now]]
                    /\ IF response.kind = "error"
                       THEN /\ cache' = loaded.cache
                            /\ last' = Returned("next", id, fmt, user_message, "error",
                                                response.value, resumed, TRUE)
                            /\ UNCHANGED <<calls, cycles>>
                       ELSE /\ cache' = SetState(loaded.cache, id, entry)
                            /\ last' = Returned("next", id, fmt, user_message,
                                    IF AtCeiling(entry.count, fmt) THEN "end" ELSE "message",
                                    IF AtCeiling(entry.count, fmt) THEN "__end__"
                                    ELSE entry.last_message.text,
                                    resumed, TRUE)
                            /\ calls' = [calls EXCEPT ![id] = @ + 1]
                            /\ cycles' = [cycles EXCEPT ![id] = @ + 1]
        /\ UNCHANGED <<now, cacheGhost, threads>>

next(fmt, id, user_message, questions) ==
    /\ NextCall(fmt, id, user_message, questions)
    /\ UNCHANGED ran

end_forgets(id) ==
    LET loaded == load_cache(cache, store, id)
    IN  /\ loaded.found
        /\ cache' = [loaded.cache EXCEPT !.od = SelectSeq(@, LAMBDA e : e.key # id)]
        /\ last' = Returned("end", id, "", "", "report", loaded.data.last_message.text,
                            NoResume, FALSE)
        /\ UNCHANGED <<store, now, calls, cycles, cacheGhost, threads, ran>>

\* InterviewClient.end on a thread load_cache finds; every operation of operations_map is passed over
end(id) ==
    LET loaded == load_cache(cache, store, id)
    IN  /\ loaded.found
        /\ cache' = loaded.cache
        /\ last' = Returned("end", id, "", "", "report", loaded.data.last_message.text,
                            NoResume, FALSE)
        /\ UNCHANGED <<store, now, calls, cycles, cacheGhost, threads, ran>>

InvalidCallClearsCache(op, config) ==
    /\ op \in {"next", "end"}
    /\ \/ config = NoConfig
       \/ config \in ThreadIds /\ ~load_cache(cache, store, config).found
    /\ last' = Returned(op, config, "", "", "error",
                        IF config = NoConfig THEN "ValueError" ELSE "InvalidSession",
                        NoResume, FALSE)
    /\ cache' = SimpleCache(cache.maxsize)
    /\ UNCHANGED <<store, now, calls, cycles, cacheGhost, threads, ran>>

\* next and end with no interview_config (ValueError), or with one load_cache finds nothing for
InvalidCall(op, config) ==
    /\ op \in {"next", "end"}
    /\ \/ config = NoConfig
       \/ config \in ThreadIds /\ ~load_cache(cache, store, config).found
    /\ last' = Returned(op, config, "", "", "error",
                        IF config = NoConfig THEN "ValueError" ELSE "InvalidSession",
                        NoResume, FALSE)
    /\ cache' = IF config = NoConfig THEN cache ELSE load_cache(cache, store, config).cache
    /\ UNCHANGED <<store, now, calls, cycles, cacheGhost, threads, ran>>

\* the clock moves on
Tick(d) ==
    /\ now + d <= MaxNow
    /\ now' = now + d
    /\ UNCHANGED <<cache, store, last, calls, cycles, cacheGhost, threads, ran>>

-----------------------------------------------------------------------------
(* One interview: clients of any format call start, next and end on it, one call *)
(* at a time; the other thread id is never handed out                         *)

\* the callers of the client, and a caller that is in no call
Callers == {"A", "B"}
Idle == [pc |-> "idle", format |-> "", message |-> "", seen |-> "", answered |-> "",
         count |-> 0, response |-> None]
NoCallers == threads = [t \in Callers |-> Idle]

\* no node function applied on its own
NoRun == [node |-> "none", state |-> None, resume |-> NoResume, route |-> "", out |-> None]

NoSessions ==
    /\ store = [id \in ThreadIds |-> NoCheckpoint]
    /\ last = NoCall
    /\ NoCallers
    /\ ran = NoRun
    /\ calls = [id \in ThreadIds |-> 0]
    /\ cycles = [id \in ThreadIds |-> 0]

NoCacheGhost ==
    /\ touched = <<>>
    /\ lastSet = [k \in Keys |-> [hit |-> FALSE, value |-> None]]
    /\ ret = [op |-> "new", key |-> 0, hit |-> FALSE, value |-> None]

Init ==
    /\ cache = SimpleCache(DefaultMaxSize)
    /\ now = 0
    /\ NoSessions
    /\ NoCacheGhost

Next ==
    \/ \E fmt \in Formats : start(fmt, "t1")
    \/ \E fmt \in Formats, m \in UserMessages, n \in 0..MaxQuestions :
            next(fmt, "t1", m, Questions(n))
    \/ end("t1")
    \/ \E op \in {"next", "end"}, config \in ThreadIds \cup {NoConfig} :
            InvalidCall(op, config)
    \/ \E d \in TickSteps : Tick(d)

Spec == Init /\ [][Next]_vars

-----------------------------------------------------------------------------
(* The first next call of an interview, made any number of seconds after start *)

\* the oldest prompt answered, in seconds
MaxAge == 66

InitExpiry ==
    \E fmt \in Formats, age \in 0..MaxAge :
        LET response == InvokeInput(EmptyState, "Start Interview", "introduction",
                                    interview_rules(fmt), <<>>)
        IN  /\ store = [id \in ThreadIds |->
                            IF id = "t1" THEN [response.state EXCEPT !.ts = 0] ELSE NoCheckpoint]
            /\ cache = SetState(SimpleCache(DefaultMaxSize), "t1", StartEntry(response.value, 0))
            /\ last = Returned("start", "t1", fmt, "", "message", response.value, NoResume, TRUE)
            /\ now = age
            /\ calls = [id \in ThreadIds |-> 0]
            /\ cycles = [id \in ThreadIds |-> 0]
            /\ NoCallers
            /\ ran = NoRun
            /\ NoCacheGhost

NextExpiry ==
    \E fmt \in Formats, m \in UserMessages :
        /\ calls["t1"] = 0
        /\ next(fmt, "t1", m, <<>>)

SpecExpiry == InitExpiry /\ [][NextExpiry]_vars

-----------------------------------------------------------------------------
(* Two interviews side by side: each is started by a client of some format and *)
(* continued by that client, calls on the two alternating in any order, one at *)
(* a time; the questioner answers with no question (the graph call then fails) *)
(* or with one                                                                 *)

\* the client that started thread `id`
ClientOf(id) == store[id].rules.format

NextPair ==
    \/ \E fmt \in Formats, id \in ThreadIds : start(fmt, id)
    \/ \E id \in ThreadIds, n \in 0..1 :
            /\ store[id] # NoCheckpoint
            /\ next(ClientOf(id), id, "ada", Questions(n))
    \/ \E id \in ThreadIds : end(id)
    \/ \E d \in TickSteps : Tick(d)

SpecPair == Init /\ [][NextPair]_vars

-----------------------------------------------------------------------------
(* Two callers in InterviewClient.next on one thread id at the same time. The code   *)
(* takes no lock: a call is three steps, and the other caller may run between them.  *)
(* cached_data is the dict the cache holds, so both callers read and write one dict. *)
(* Both callers use the client that started the interview.                           *)

\* the entry the cache holds for a thread id
Entry(id) == Lookup(cache.od, id)
Cached(id) == Contains(cache.od, id)

\* the prompt the graph of a thread waits on, "" when it waits on none
PendingPrompt(state) ==
    IF state.next \in {"candidate_information_collection_node", "answer_collection_node"}
    THEN LET out == RunNode(state.next, state, NoResume, <<>>)
         IN  IF out.kind = "interrupt" THEN out.value ELSE ""
    ELSE ""

\* lines 50-55: load_cache and the ceiling check
CallerLoads(t, fmt, id, user_message) ==
    LET loaded == load_cache(cache, store, id)
        cached_data == loaded.data
    IN  /\ threads[t].pc = "idle"
        /\ loaded.found
        /\ calls[id] < MaxCalls
        /\ cache' = loaded.cache
        /\ IF AtCeiling(cached_data.count, fmt)
           THEN /\ last' = Returned("next", id, fmt, user_message, "end", "__end__", NoResume, FALSE)
                /\ calls' = [calls EXCEPT ![id] = @ + 1]
                /\ UNCHANGED threads
           ELSE /\ threads' = [threads EXCEPT ![t] =
                        [Idle EXCEPT !.pc = "loaded", !.format = fmt, !.message = user_message,
                                     !.seen = cached_data.last_message.text]]
                /\ UNCHANGED <<last, calls>>
        /\ UNCHANGED <<store, now, cycles, cacheGhost, ran>>

\* lines 57-67: the graph call, on the dict as it is by now
CallerInvokes(t, id, questions) ==
    LET cached_data == Entry(id)
        fmt == threads[t].format
        response == NextResponse(fmt, cached_data, store[id], threads[t].message, questions, now)
    IN  /\ threads[t].pc = "loaded"
        /\ store' = [store EXCEPT ![id] = [response.state EXCEPT !.ts = now]]
        /\ IF response.kind = "error"
           THEN /\ threads' = [threads EXCEPT ![t] = Idle]
                /\ last' = Returned("next", id, fmt, threads[t].message, "error", response.value,
                                    ResumedWith(fmt, cached_data, threads[t].message, now), TRUE)
           ELSE /\ threads' = [threads EXCEPT ![t] =
                        [@ EXCEPT !.pc = "invoked",
                                  !.answered = IF cached_data.last_message.type = "interrupt"
                                               THEN PendingPrompt(store[id]) ELSE threads[t].seen,
                                  !.count = cached_data.count,
                                  !.response = response]]
                /\ UNCHANGED last
        /\ UNCHANGED <<cache, now, calls, cycles, cacheGhost, ran>>

\* lines 69-86: the dict is updated, set in the cache, and the reply is built from it
CallerWrites(t, id) ==
    LET fmt == threads[t].format
        entry == NextEntry(Entry(id), threads[t].response, now)
    IN  /\ threads[t].pc = "invoked"
        /\ cache' = SetState(cache, id, entry)
        /\ last' = Returned("next", id, fmt, threads[t].message,
                            IF AtCeiling(entry.count, fmt) THEN "end" ELSE "message",
                            IF AtCeiling(entry.count, fmt) THEN "__end__"
                            ELSE entry.last_message.text,
                            NoResume, TRUE)
        /\ calls' = [calls EXCEPT ![id] = @ + 1]
        /\ cycles' = [cycles EXCEPT ![id] = @ + 1]
        /\ threads' = [threads EXCEPT ![t] = Idle]
        /\ UNCHANGED <<store, now, cacheGhost, ran>>

InitConcurrent ==
    \E fmt \in Formats :
        LET response == InvokeInput(EmptyState, "Start Interview", "introduction",
                                    interview_rules(fmt), <<>>)
        IN  /\ store = [id \in ThreadIds |->
                            IF id = "t1" THEN [response.state EXCEPT !.ts = 0] ELSE NoCheckpoint]
            /\ cache = SetState(SimpleCache(DefaultMaxSize), "t1", StartEntry(response.value, 0))
            /\ last = Returned("start", "t1", fmt, "", "message", response.value, NoResume, TRUE)
            /\ now = 0
            /\ calls = [id \in ThreadIds |-> 0]
            /\ cycles = [id \in ThreadIds |-> 0]
            /\ NoCallers
            /\ ran = NoRun
            /\ NoCacheGhost

NextConcurrent ==
    \/ \E t \in Callers, m \in UserMessages : CallerLoads(t, last.format, "t1", m)
    \/ \E t \in Callers, n \in 0..MaxQuestions : CallerInvokes(t, "t1", Questions(n))
    \/ \E t \in Callers : CallerWrites(t, "t1")

SpecConcurrent == InitConcurrent /\ [][NextConcurrent]_vars

-----------------------------------------------------------------------------
(* Two callers in SimpleCache.get and SimpleCache.set on one cache at the same time. *)
(* The class takes no lock: a call is a sequence of OrderedDict operations, and the  *)
(* other caller may run between any two of them.                                     *)

\* calls each caller makes
MaxRaceCalls == 2

\* a caller outside any cache call, having made `done` calls
Outside(done) == [pc |-> "idle", key |-> 0, value |-> None, done |-> done]
Inside(pc, key, value, done) == [pc |-> pc, key |-> key, value |-> value, done |-> done]

\* the call of caller t ends: it returns `value`, or raises when op is "KeyError"
Leaves(t, op, hit, value) ==
    /\ ret' = [op |-> op, key |-> threads[t].key, hit |-> hit, value |-> value]
    /\ threads' = [threads EXCEPT ![t] = Outside(@.done + 1)]

\* get, line 9; set, line 16: the membership test
RaceEnters(t, op, key, value) ==
    /\ threads[t].pc = "idle"
    /\ threads[t].done < MaxRaceCalls
    /\ IF op = "get" /\ ~Contains(cache.od, key)
       THEN /\ ret' = [op |-> "get", key |-> key, hit |-> FALSE, value |-> None]
            /\ threads' = [threads EXCEPT ![t] = Outside(@.done + 1)]
       ELSE /\ threads' = [threads EXCEPT ![t] =
                    Inside(IF op = "get" THEN "get_move"
                           ELSE IF Contains(cache.od, key) THEN "set_move" ELSE "set_item",
                           key, value, @.done)]
            /\ UNCHANGED ret
    /\ UNCHANGED <<cache, touched, lastSet, store, now, last, calls, cycles, ran>>

\* the next OrderedDict operation of the call caller t is in
RaceSteps(t) ==
    LET pc == threads[t].pc
        key == threads[t].key
        moves(to) == threads' = [threads EXCEPT ![t] = [@ EXCEPT !.pc = to]]
    IN  /\ pc # "idle"
        /\ CASE pc \in {"get_move", "set_move"} ->
                \* lines 12 and 17: move_to_end(key) raises KeyError for a key not held
                IF Contains(cache.od, key)
                THEN /\ cache' = [cache EXCEPT !.od = MoveToEnd(@, key)]
                     /\ moves(IF pc = "get_move" THEN "get_item" ELSE "set_item")
                     /\ UNCHANGED <<ret, lastSet>>
                ELSE Leaves(t, "KeyError", FALSE, None) /\ UNCHANGED <<cache, lastSet>>
             [] pc = "get_item" ->
                \* line 13
                /\ IF Contains(cache.od, key)
                   THEN Leaves(t, "get", TRUE, Lookup(cache.od, key))
                   ELSE Leaves(t, "KeyError", FALSE, None)
                /\ UNCHANGED <<cache, lastSet>>
             [] pc = "set_item" ->
                \* line 18
                /\ cache' = [cache EXCEPT !.od = SetItem(@, key, threads[t].value)]
                /\ lastSet' = [lastSet EXCEPT ![key] = [hit |-> TRUE, value |-> threads[t].value]]
                /\ moves("set_len")
                /\ UNCHANGED ret
             [] pc = "set_len" ->
                \* line 20
                /\ IF Len(cache.od) > cache.maxsize
                   THEN moves("set_pop") /\ UNCHANGED ret
                   ELSE Leaves(t, "set", TRUE, None)
                /\ UNCHANGED <<cache, lastSet>>
             [] pc = "set_pop" ->
                \* line 21: popitem raises KeyError on an empty dict
                /\ IF Len(cache.od) > 0
                   THEN cache' = [cache EXCEPT !.od = PopOldest(@)] /\ Leaves(t, "set", TRUE, None)
                   ELSE Leaves(t, "KeyError", FALSE, None) /\ UNCHANGED cache
                /\ UNCHANGED lastSet
        /\ UNCHANGED <<touched, store, now, last, calls, cycles, ran>>

InitRace ==
    /\ \E n \in 1..MaxCap : cache = SimpleCache(n)
    /\ NoCacheGhost
    /\ threads = [t \in Callers |-> Outside(0)]
    /\ store = [id \in ThreadIds |-> NoCheckpoint]
    /\ last = NoCall
    /\ ran = NoRun
    /\ now = 0
    /\ calls = [id \in ThreadIds |-> 0]
    /\ cycles = [id \in ThreadIds |-> 0]

NextRace ==
    \/ \E t \in Callers, op \in {"get", "set"}, k \in Keys, v \in Values : RaceEnters(t, op, k, v)
    \/ \E t \in Callers : RaceSteps(t)

SpecRace == InitRace /\ [][NextRace]_vars

-----------------------------------------------------------------------------
(* The node functions and the router on their own: one of them is applied once to *)
(* a graph state drawn from the states below                                      *)

\* state.get("phase") of a state that holds no phase
NoPhase == ""
Phases == {"reporting", "introduction", "q&a", "evaluation", "execution", "unknown", NoPhase}

NodeNames ==
    {"candidate_information_collection_node", "perception_node", "question_generation_node",
     "answer_collection_node", "evaluation_node", "reporting_node"}

\* candidate_information with none, one, two or all three of its keys, filled in order
Infos ==
    {EmptyInfo}
    \cup {("name" :> a) : a \in UserMessages}
    \cup {("name" :> a) @@ ("role" :> b) : a \in UserMessages, b \in UserMessages}
    \cup {("name" :> a) @@ ("role" :> b) @@ ("companies" :> "ada") :
                a \in UserMessages, b \in UserMessages}

\* the history a session has when it holds `info`: the message of start, and the message
\* the candidate node logged as it filled each key
FieldOrder == <<"name", "role", "companies">>
HistoryOf(info) ==
    <<Message("human", "Start Interview", EmptyInfo, <<>>)>>
    \o [i \in 1..Cardinality(DOMAIN info) |->
            Message("human", "candidate_information",
                    [k \in {FieldOrder[j] : j \in 1..i} |-> info[k]], <<>>)]

\* the answers to the first k of `questions`
AnswersTo(questions, k) ==
    [i \in 1..k |-> [question |-> questions[i], answer |-> "ada"]]

\* graph states: any phase, rules or none, n questions of which the first k are answered
NodeStatesWith(n) ==
    {[EmptyState EXCEPT
        !.messages = HistoryOf(info),
        !.phase = phase,
        !.candidate_information = info,
        !.questions = Questions(n),
        !.answers = AnswersTo(Questions(n), k),
        !.rules = rules] :
     phase \in Phases, info \in Infos, k \in 0..n,
     rules \in {None} \cup {interview_rules(fmt) : fmt \in Formats}}
NodeStates == UNION {NodeStatesWith(n) : n \in 0..MaxQuestions}

InitNodes ==
    /\ \E state \in NodeStates :
            store = [id \in ThreadIds |-> IF id = "t1" THEN state ELSE NoCheckpoint]
    /\ cache = SimpleCache(DefaultMaxSize)
    /\ now = 0
    /\ last = NoCall
    /\ NoCallers
    /\ ran = NoRun
    /\ calls = [id \in ThreadIds |-> 0]
    /\ cycles = [id \in ThreadIds |-> 0]
    /\ NoCacheGhost

\* phase_router_function(state)
Route(id) ==
    /\ ran = NoRun
    /\ ran' = [node |-> "router", state |-> store[id], resume |-> NoResume,
               route |-> phase_router_function(store[id]), out |-> None]
    /\ UNCHANGED <<cache, store, now, last, calls, cycles, threads, cacheGhost>>

\* one node function on the state, with or without a resume value at hand
RunOne(id, node, resume, questions) ==
    /\ ran = NoRun
    /\ ran' = [node |-> node, state |-> store[id], resume |-> resume, route |-> "",
               out |-> RunNode(node, store[id], resume, questions)]
    /\ UNCHANGED <<cache, store, now, last, calls, cycles, threads, cacheGhost>>

NextNodes ==
    \/ Route("t1")
    \/ \E node \in NodeNames, resume \in {NoResume} \cup {Resume(m) : m \in UserMessages},
          n \in 0..MaxQuestions :
            RunOne("t1", node, resume, Questions(n))

SpecNodes == InitNodes /\ [][NextNodes]_vars

-----------------------------------------------------------------------------
(* Stand-alone cache: any sequence of get and set calls *)

InitCache ==
    /\ \E n \in 0..MaxCap : cache = SimpleCache(n)
    /\ touched = <<>>
    /\ lastSet = [k \in Keys |-> [hit |-> FALSE, value |-> None]]
    /\ ret = [op |-> "new", key |-> 0, hit |-> FALSE, value |-> None]
    /\ now = 0
    /\ NoSessions

CacheSet(key, value) ==
    /\ cache' = SetState(cache, key, value)
    /\ touched' = Touch(touched, key)
    /\ lastSet' = [lastSet EXCEPT ![key] = [hit |-> TRUE, value |-> value]]
    /\ ret' = [op |-> "set", key |-> key, hit |-> TRUE, value |-> None]
    /\ UNCHANGED sessionVars

CacheGet(key) ==
    /\ cache' = GetState(cache, key)
    /\ touched' = IF Contains(cache.od, key) THEN Touch(touched, key) ELSE touched
    /\ ret' = [op |-> "get", key |-> key, hit |-> Contains(cache.od, key),
               value |-> GetValue(cache, key)]
    /\ UNCHANGED <<lastSet, store, now, last, calls, cycles, threads, ran>>

NextCache ==
    \/ \E k \in Keys, v \in Values : CacheSet(k, v)
    \/ \E k \in Keys : CacheGet(k)

SpecCache == InitCache /\ [][NextCache]_vars

-----------------------------------------------------------------------------
(* Properties *)

\* the step is a next call on `id` that returned
NextReturned(id) == calls'[id] = calls[id] + 1

\* C1 as claimed: after start and k next calls that returned, count equals k, for any k
C1_CountEqualsReturnedCalls ==
    \A id \in ThreadIds : Cached(id) => Entry(id).count = calls[id]

\* C1 as amended: count equals the number of next calls that ran the graph and returned;
\* start stores count 0, and a call answered "__end__" at the ceiling is not counted
C1_CountEqualsCompletedCycles ==
    /\ \A id \in ThreadIds : Cached(id) => Entry(id).count = cycles[id]
    /\ last.op = "start" => Entry(last.config).count = 0
    /\ \A id \in ThreadIds : calls[id] >= cycles[id]

C1_Witness ==
    /\ Cached("t1")
    /\ Entry("t1").count = 4
    /\ cycles["t1"] = 4
    /\ calls["t1"] = 5

\* C2: the next call by a client with ceiling T that brings count to T returns "__end__",
\* and a next call made when count is already T or more returns "__end__" without
\* running the graph and without changing count
C2_CeilingEndsTheInterview ==
    [][\A id \in ThreadIds : NextReturned(id) =>
            LET T == max_questions(last'.format)
                before == Entry(id).count
                after == Lookup(cache'.od, id).count
            IN  /\ after >= before
                /\ before >= T =>
                        /\ last'.kind = "end" /\ last'.text = "__end__"
                        /\ ~last'.invoked
                        /\ store' = store
                        /\ after = before
                /\ (before < T /\ after >= T) =>
                        /\ last'.kind = "end" /\ last'.text = "__end__"
                        /\ after = T
                /\ after < T => last'.kind = "message"]_vars

C2_Witness ==
    /\ last.op = "next" /\ last.kind = "end" /\ ~last.invoked
    /\ Entry(last.config).count = max_questions(last.format)
    /\ calls[last.config] = cycles[last.config] + 1

\* C4: with no_of_questions = 1 and one generated question, start returns the full-name
\* prompt, the first three next calls return the role prompt, the companies prompt and
\* the first question, and the fourth runs evaluation and returns "__end__" with count 4
\* and a cached last_message of type "text"
C4_EndToEndOneQuestion ==
    /\ last.op = "start" =>
            last.kind = "message" /\ last.text = "Please enter your full name"
    /\ (last.op = "next" /\ last.format = "short" /\ last.invoked /\ last.kind # "error") =>
            LET id == last.config
                count == Entry(id).count
                state == store[id]
            IN  /\ count = 1 => last.text = "Job role you want to interview for"
                /\ count = 2 =>
                        last.text = "Please enter comma separated names of companies you prefer"
                /\ (count = 3 /\ Len(state.questions) = 1) => last.text = state.questions[1]
                /\ (count = 4 /\ Len(state.questions) = 1) =>
                        /\ last.kind = "end" /\ last.text = "__end__"
                        /\ Entry(id).last_message.type = "text"
                        /\ Entry(id).last_message.text = "evaluation_json"
                        /\ LastContent(state) = "evaluation_json"
                        /\ state.next = "__end__"
                        /\ Len(state.answers) = 1

C4_Witness ==
    /\ last.op = "next" /\ last.format = "short" /\ last.invoked /\ last.kind = "end"
    /\ Entry("t1").count = 4
    /\ calls["t1"] = 4
    /\ Len(store["t1"].questions) = 1
    /\ store["t1"].rules.no_of_questions = 1
    /\ store["t1"].answers[1].answer = "ada"

HasEvaluation(state) ==
    \E i \in 1..Len(state.messages) : state.messages[i].content = "evaluation_json"

\* C6 as claimed: whenever end returns, its "evaluation" is the text of the last evaluation
C6_EndReturnsLastEvaluation ==
    (last.op = "end" /\ last.kind = "report") =>
        /\ HasEvaluation(store[last.config])
        /\ last.text = "evaluation_json"

\* C7: start leaves the new thread suspended in candidate collection with phase
\* introduction, nothing collected, a cache entry of count 0 holding the full-name
\* prompt as an interrupt, and returns that prompt
C7_StartCreatesSession ==
    last.op = "start" =>
        LET id == last.config
            state == store[id]
        IN  /\ state.phase = "introduction"
            /\ state.candidate_information = EmptyInfo
            /\ state.questions = <<>>
            /\ state.answers = <<>>
            /\ state.rules = interview_rules(last.format)
            /\ state.next = "candidate_information_collection_node"
            /\ Cached(id)
            /\ Entry(id).count = 0
            /\ Entry(id).last_message =
                    [text |-> "Please enter your full name", type |-> "interrupt"]
            /\ Entry(id).last_updated <= now
            /\ last.kind = "message"
            /\ last.text = "Please enter your full name"
            /\ calls[id] = 0

C7_Witness ==
    /\ last.op = "start" /\ last.config = "t1" /\ last.format = "quick"
    /\ Cached("t1")

\* C8: the keys a cache of capacity maxsize holds are the (at most maxsize) most recently
\* touched ones, a set and a hitting get being a touch; a get on a key that was touched
\* and is no longer among them returns None
C8_LRULaw ==
    /\ KeysOf(cache.od) = RecentKeys(touched, cache.maxsize)
    /\ Len(cache.od) = Cardinality(KeysOf(cache.od))
    /\ (/\ ret.op = "get"
        /\ \E i \in 1..Len(touched) : touched[i] = ret.key
        /\ ret.key \notin RecentKeys(touched, cache.maxsize)) =>
            ~ret.hit /\ ret.value = None

C8_Witness ==
    /\ ret.op = "get" /\ ~ret.hit
    /\ cache.maxsize = 2
    /\ Len(touched) = 3
    /\ touched[1] = ret.key
    /\ KeysOf(cache.od) = {touched[2], touched[3]}

\* the keys of an OrderedDict in their order
KeySeq(od) == [i \in 1..Len(od) |-> od[i].key]

\* C9: get on a present key returns the value last set for it and makes it the most
\* recent key, no value and no other key's place changing; get on an absent key returns
\* None and changes nothing; a cache nothing was set in returns None
C9_GetFrame ==
    [][ret'.op = "get" =>
            LET key == ret'.key
            IN  /\ Contains(cache.od, key) =>
                    /\ ret'.hit
                    /\ lastSet[key].hit /\ ret'.value = lastSet[key].value
                    /\ KeysOf(cache'.od) = KeysOf(cache.od)
                    /\ \A k \in KeysOf(cache.od) : Lookup(cache'.od, k) = Lookup(cache.od, k)
                    /\ cache'.od[Len(cache'.od)].key = key
                    /\ Without(KeySeq(cache'.od), key) = Without(KeySeq(cache.od), key)
                /\ ~Contains(cache.od, key) =>
                    /\ ~ret'.hit /\ ret'.value = None
                    /\ cache' = cache
                /\ touched = <<>> => ~ret'.hit /\ ret'.value = None]_vars

C9_Witness ==
    /\ ret.op = "get" /\ ret.hit
    /\ Len(cache.od) = 2
    /\ cache.od[2].key = ret.key
    /\ lastSet[cache.od[1].key].hit

-----------------------------------------------------------------------------
(* Expiry of the answer to a pending prompt *)

\* seconds between the cached last_updated and the call
Age(id) == now - Entry(id).last_updated

\* the step is a next call on `id` by a client with time_frame = 1, answering an interrupt
ShortClientAnswers(id) ==
    /\ NextReturned(id)
    /\ last'.format = "short"
    /\ interview_rules("short").time_frame = 1
    /\ Entry(id).last_message.type = "interrupt"
    /\ last'.invoked

\* C3 as claimed: at last_updated + 65 s or later the message is dropped, at + 64 s it is kept
C3_ExpiryFrom65Seconds ==
    [][\A id \in ThreadIds : ShortClientAnswers(id) =>
            /\ Age(id) >= 65 => last'.resumed = Resume("")
            /\ Age(id) = 64 => last'.resumed = Resume(last'.message)]_vars

\* C3 as amended: later than last_updated + 65 s the message is dropped; at + 65 s and
\* at every earlier time (+ 64 s too) it is kept
C3_ExpiryAfter65Seconds ==
    [][\A id \in ThreadIds : ShortClientAnswers(id) =>
            /\ Age(id) > 65 => last'.resumed = Resume("")
            /\ Age(id) <= 65 => last'.resumed = Resume(last'.message)]_vars

C3_Witness ==
    /\ last.op = "next" /\ last.format = "short" /\ last.invoked
    /\ last.message = "ada"
    /\ last.resumed = Resume("")
    /\ now = 66
    /\ store["t1"].candidate_information = [name |-> ""]

-----------------------------------------------------------------------------
(* Two next calls at once *)

\* what the cache entry of a thread is when it agrees with the thread's checkpoint
AgreesWithCheckpoint(entry, state) ==
    IF state.next = "__end__"
    THEN entry.last_message = [text |-> LastContent(state), type |-> "text"]
    ELSE entry.last_message = [text |-> PendingPrompt(state), type |-> "interrupt"]

\* C10: two next calls on one thread id at once come out as one after the other would:
\* each resume answers the prompt its caller was shown (no prompt is answered twice),
\* the graph is run only below the caller's ceiling, and once both are back count is
\* the number of completed cycles, the cached prompt is the one the graph waits on, and
\* the answers are in the order of the questions
C10_ConcurrentNextIsSerial ==
    /\ \A t \in Callers : threads[t].pc = "invoked" =>
            /\ threads[t].answered = threads[t].seen
            /\ threads[t].count < max_questions(threads[t].format)
    /\ (\A t \in Callers : threads[t].pc = "idle") =>
            /\ Entry("t1").count = cycles["t1"]
            /\ last.kind # "error" => AgreesWithCheckpoint(Entry("t1"), store["t1"])
    /\ \A i \in 1..Len(store["t1"].answers) :
            /\ i <= Len(store["t1"].questions)
            /\ store["t1"].answers[i].question = store["t1"].questions[i]

-----------------------------------------------------------------------------
(* Two interviews *)

\* the thread id a step's call was made on (a step of the clock is made on none)
CalledOn(id) == last'.config = id /\ now' = now

-----------------------------------------------------------------------------
(* Candidate information *)

\* the field whose prompt the cache holds as pending for thread `id`, "none" if it holds
\* no such prompt
PromptedField(id) ==
    IF Cached(id) /\ Entry(id).last_message.type = "interrupt"
                  /\ \E f \in InfoKeys : Entry(id).last_message.text = FieldPrompt(f)
    THEN CHOOSE f \in InfoKeys : Entry(id).last_message.text = FieldPrompt(f)
    ELSE "none"

\* the step is a start or next call on `id` that returned the prompt of `field`
Issues(id, field) ==
    /\ last'.config = id /\ last'.op \in {"start", "next"} /\ last'.kind = "message"
    /\ last'.text = FieldPrompt(field)
    /\ now' = now

\* C13: the role prompt is issued only with name set and the companies prompt only with
\* role set, the prompt issued being the one of the first unset field; and a next call
\* that resumes a thread suspended on such a prompt sets that one field to the value
\* resumed with (the message, or "" when it expired), leaving the fields set before as
\* they were
C13_CandidateFieldsInOrder ==
    [][\A id \in ThreadIds :
        /\ \A f \in InfoKeys : Issues(id, f) =>
                /\ f = MissingField(store'[id].candidate_information)
                /\ f = "role" => "name" \in DOMAIN store'[id].candidate_information
                /\ f = "companies" =>
                        {"name", "role"} \subseteq DOMAIN store'[id].candidate_information
        /\ (/\ PromptedField(id) # "none"
            /\ store[id].next = "candidate_information_collection_node"
            /\ last'.config = id /\ last'.op = "next" /\ last'.invoked
            /\ store'[id] # store[id]) =>
                LET before == store[id].candidate_information
                    after == store'[id].candidate_information
                    field == PromptedField(id)
                IN  /\ last'.resumed.given
                    /\ DOMAIN after = DOMAIN before \cup {field}
                    /\ field \notin DOMAIN before
                    /\ after[field] = last'.resumed.value
                    /\ \A f \in DOMAIN before : after[f] = before[f]]_vars

C13_Witness ==
    /\ last.op = "next" /\ last.message = "ada" /\ last.resumed = Resume("")
    /\ last.text = FieldPrompt("companies")
    /\ store["t1"].candidate_information = [name |-> "ada", role |-> ""]
    /\ PromptedField("t1") = "companies"

-----------------------------------------------------------------------------
(* Answers *)

\* thread `id` has a checkpoint before and after the step
Checkpointed(id) == store[id] # NoCheckpoint /\ store'[id] # NoCheckpoint

\* the step recorded an answer on thread `id`
AnswerRecorded(id) == Checkpointed(id) /\ Len(store'[id].answers) > Len(store[id].answers)

-----------------------------------------------------------------------------
(* The router *)

\* C15: the router's answer is decided by the phase alone: reporting, introduction, q&a
\* and evaluation have their nodes, and every other phase, an absent one included, goes
\* to perception
C15_RouterTable ==
    ran.node = "router" =>
        LET phase == ran.state.phase
        IN  /\ phase = "reporting" => ran.route = "reporting_node"
            /\ phase = "introduction" => ran.route = "candidate_information_collection_node"
            /\ phase = "q&a" => ran.route = "answer_collection_node"
            /\ phase = "evaluation" => ran.route = "evaluation_node"
            /\ phase \notin {"reporting", "introduction", "q&a", "evaluation"} =>
                    ran.route = "perception_node"
            /\ ran.route \in NodeNames

C15_Witness ==
    /\ ran.node = "router"
    /\ ran.state.phase = NoPhase
    /\ ran.route = "perception_node"
    /\ ran.state.candidate_information = [name |-> "ada"]

-----------------------------------------------------------------------------
(* Concurrent cache calls *)

\* C16: whatever the interleaving of get and set calls of concurrent callers, no call
\* raises, a get that finds its key returns a value after a set on that key, and with
\* every call finished the cache holds at most maxsize entries
C16_CacheIsThreadSafe ==
    /\ ret.op # "KeyError"
    /\ (ret.op = "get" /\ ret.hit) => lastSet[ret.key].hit
    /\ (\A t \in Callers : threads[t].pc = "idle") => Len(cache.od) <= cache.maxsize

-----------------------------------------------------------------------------
(* An expired answer *)

\* the step is a next call on `id` that ran the graph on a pending interrupt whose
\* last_updated is older than the calling client's window
ExpiredAnswer(id) ==
    /\ last'.config = id /\ last'.op = "next" /\ last'.invoked
    /\ now' = now
    /\ Entry(id).last_message.type = "interrupt"
    /\ Entry(id).last_updated < now - ExpiryWindow(interview_rules(last'.format))

\* C17: a next call on an expired pending prompt resumes the graph with "" whatever the
\* message was; unless the graph call raises (which it does only when no question was
\* generated) the call returns the next prompt or "__end__", count grows by one,
\* last_updated is the time of the call, and "" is what is stored under the candidate
\* field or as the answer to the question that was prompted
C17_ExpiredAnswerIsBlank ==
    [][\A id \in ThreadIds : ExpiredAnswer(id) =>
        /\ last'.resumed = Resume("")
        /\ last'.kind = "error" => store'[id].questions = <<>>
        /\ last'.kind # "error" =>
            LET entry == Lookup(cache'.od, id)
                prompt == Entry(id).last_message.text
                answers == store[id].answers
            IN  /\ entry.count = Entry(id).count + 1
                /\ entry.last_updated = now
                /\ last'.kind \in {"message", "end"}
                /\ last'.kind = "message" => last'.text = entry.last_message.text
                /\ last'.kind = "end" => /\ last'.text = "__end__"
                                         /\ AtCeiling(entry.count, last'.format)
                /\ \A f \in InfoKeys : prompt = FieldPrompt(f) =>
                        /\ f \notin DOMAIN store[id].candidate_information
                        /\ f \in DOMAIN store'[id].candidate_information
                        /\ store'[id].candidate_information[f] = ""
                /\ (\A f \in InfoKeys : prompt # FieldPrompt(f)) =>
                        /\ Len(store'[id].answers) = Len(answers) + 1
                        /\ store'[id].answers[Len(answers) + 1] =
                                [question |-> prompt, answer |-> ""]]_vars

C17_Witness ==
    /\ last.op = "next" /\ last.message = "ada" /\ last.resumed = Resume("")
    /\ last.kind = "message"
    /\ now = 6
    /\ Len(store["t1"].answers) = 1
    /\ store["t1"].answers[1].answer = ""
    /\ store["t1"].candidate_information = [name |-> "ada", role |-> "ada", companies |-> "ada"]
    /\ Entry("t1").count = 4 /\ Entry("t1").last_updated = 6

-----------------------------------------------------------------------------
(* Cache entry and checkpoint *)

\* the step is a next call on `id` that ran the graph and returned
CycleCompleted(id) ==
    /\ last'.config = id /\ last'.op = "next" /\ last'.invoked /\ last'.kind # "error"
    /\ cycles'[id] = cycles[id] + 1

\* C18: after a next call that ran the graph and returned, the cached last_message is the
\* interrupt the thread is now suspended on if it is suspended, and otherwise the content
\* of the last message of its history with type "text"; the same write moved count up by
\* one and set last_updated to the time of the call
C18_CacheAgreesAfterNext ==
    [][\A id \in ThreadIds : CycleCompleted(id) =>
        LET entry == Lookup(cache'.od, id)
            state == store'[id]
        IN  /\ Contains(cache'.od, id)
            /\ AgreesWithCheckpoint(entry, state)
            /\ entry.last_message.type = "interrupt" <=> state.next # "__end__"
            /\ entry.last_message.type \in {"interrupt", "text"}
            /\ entry.count = Entry(id).count + 1
            /\ entry.last_updated = now]_vars

C18_Witness ==
    /\ last.op = "next" /\ last.invoked /\ last.kind = "message"
    /\ last.text = "evaluation_json"
    /\ Entry("t1").last_message = [text |-> "evaluation_json", type |-> "text"]
    /\ store["t1"].next = "__end__"
    /\ Entry("t1").count = 4 /\ Entry("t1").last_updated = 3

-----------------------------------------------------------------------------
(* The last answer *)

\* C19 as claimed: the step that records the answer to the last question leaves the phase
\* "evaluation" and appends to the history a message holding all the answers, the one
\* just given included
C19_LastAnswerLogsAllAnswers ==
    [][\A id \in ThreadIds :
        (AnswerRecorded(id) /\ Len(store'[id].answers) = Len(store'[id].questions)) =>
            LET logged == store'[id].messages[Len(store[id].messages) + 1]
            IN  /\ store'[id].phase = "evaluation"
                /\ Len(store'[id].messages) > Len(store[id].messages)
                /\ logged.content = "answers"
                /\ logged.answers = store'[id].answers
                /\ Len(logged.answers) = Len(store'[id].questions)]_vars

-----------------------------------------------------------------------------
(* The first question *)

\* thread `id` is suspended on the prompt of its first question
FirstQuestionPending(id) ==
    /\ store[id] # NoCheckpoint
    /\ store[id].next = "answer_collection_node"
    /\ store[id].questions # <<>>
    /\ store[id].answers = <<>>

\* the step is a next call on `id` that ran the graph
GraphRan(id) == last'.config = id /\ last'.op = "next" /\ last'.invoked /\ now' = now

-----------------------------------------------------------------------------
(* C21: the answers of a session against its questions *)

\* the answers of a checkpoint pair with the questions, position by position
InQuestionOrder(state) ==
    /\ Len(state.answers) <= Len(state.questions)
    /\ \A i \in 1..Len(state.answers) : state.answers[i].question = state.questions[i]

\* the step is a next call that resumes the graph while the prompt of the question at
\* position `i` is the pending one, and records what it resumed with as the answer to it
AnswersQuestion(id, i) ==
    /\ last'.op = "next" /\ last'.config = id /\ last'.resumed.given
    /\ last'.resumed.value \in {last'.message, ""}
    /\ Cached(id)
    /\ Entry(id).last_message = [text |-> store[id].questions[i], type |-> "interrupt"]
    /\ store'[id].answers =
            Append(store[id].answers,
                   [question |-> store[id].questions[i], answer |-> last'.resumed.value])

\* C21: the answers are appended in question order: the answer at every position names the
\* question at that position, a step either leaves the answers alone or appends one pair, the
\* next question with the (possibly blanked) message of the next call that followed its prompt;
\* no answer is removed, replaced or duplicated
C21_AnswersInQuestionOrder ==
    [][\A id \in ThreadIds :
        store'[id] # NoCheckpoint =>
            /\ InQuestionOrder(store'[id])
            /\ store[id] # NoCheckpoint =>
                  \/ store'[id].answers = store[id].answers
                  \/ AnswersQuestion(id, Len(store[id].answers) + 1)]_vars

\* both questions answered, the first with a message that came too late, the second in time
C21_Witness ==
    /\ store["t1"] # NoCheckpoint
    /\ store["t1"].questions = Questions(2)
    /\ store["t1"].answers = <<[question |-> "question 1", answer |-> ""],
                               [question |-> "question 2", answer |-> "ada"]>>
    /\ last.op = "next" /\ last.resumed = Resume("ada")

-----------------------------------------------------------------------------
(* C22: the history across one engine step *)

IsPrefix(a, b) == Len(a) <= Len(b) /\ SubSeq(b, 1, Len(a)) = a

\* a node function was applied and completed
StepCompleted == ran.node \in NodeNames /\ ran.out.kind = "update"

\* C22 as stated: across every engine step the history before the step is a prefix of
\* the history after it (here: the steps on a session whose introduction is complete and
\* that has no questions yet)
C22_HistoryIsAppendOnly ==
    StepCompleted /\ ran.state.phase = "execution" /\ ran.state.questions = <<>> =>
        IsPrefix(ran.state.messages, ran.out.state.messages)

\* C22, amended: across every engine step but perception the history before the step is a
\* prefix of the history after it, with at most one entry appended; perception puts the
\* system directive before the existing entries and keeps these as they are, in order; a
\* step that suspends or raises leaves the history alone
C22_HistoryGrowsInOrder ==
    ran.node \in NodeNames =>
        LET before == ran.state.messages
            after == ran.out.state.messages
        IN  /\ ran.out.kind # "update" => after = before
            /\ ran.out.kind = "update" /\ ran.node # "perception_node" =>
                    /\ IsPrefix(before, after)
                    /\ Len(after) <= Len(before) + 1
                    /\ \A i \in 1..Len(after) : i > Len(before) => after[i].type # "system"
            /\ ran.out.kind = "update" /\ ran.node = "perception_node" =>
                    /\ Len(after) = Len(before) + 1
                    /\ after[1].type = "system"
                    /\ Tail(after) = before

\* perception ran on a history that holds the first message already
C22_Witness ==
    /\ StepCompleted
    /\ ran.node = "perception_node"
    /\ ran.state.phase = "execution"
    /\ Len(ran.state.messages) = 4
    /\ ran.out.state.messages[1].type = "system"
    /\ ran.out.state.messages[2].content = "Start Interview"

-----------------------------------------------------------------------------
(* C23: the candidate's fields once they are set *)

\* every key `before` holds is held by `after`, with the same value
Keeps(before, after) ==
    \A k \in DOMAIN before : k \in DOMAIN after /\ after[k] = before[k]

\* C23: a key of candidate_information that is set stays set, with the value it was set
\* to, across every operation on the session
C23_CandidateFieldsAreKept ==
    [][\A id \in ThreadIds :
        store[id] # NoCheckpoint =>
            /\ store'[id] # NoCheckpoint
            /\ DOMAIN store'[id].candidate_information \subseteq InfoKeys
            /\ Keeps(store[id].candidate_information, store'[id].candidate_information)]_vars

\* the name given first is still there after the other fields, an answer and an end call
C23_Witness ==
    /\ store["t1"] # NoCheckpoint
    /\ store["t1"].candidate_information = [name |-> "ada", role |-> "", companies |-> "ada"]
    /\ Len(store["t1"].answers) = 1
    /\ last.op = "end"

-----------------------------------------------------------------------------
(* C24: the phase against the candidate's fields *)

\* C24: the phase of a session is introduction exactly while one of the three keys is
\* missing: it is still introduction after name and after role were filled, and it is
\* execution once companies is filled, until the first answer is recorded
C24_ExecutionWhenCompaniesFilled ==
    \A id \in ThreadIds :
        store[id] # NoCheckpoint =>
            LET info == store[id].candidate_information
                phase == store[id].phase
            IN  /\ phase = "introduction" <=> MissingField(info) # "none"
                /\ phase = "introduction" => InfoKeys \ DOMAIN info # {}
                /\ phase = "execution" <=> "companies" \in DOMAIN info /\ store[id].answers = <<>>

\* the call that filled companies returned the first question
C24_Witness ==
    /\ store["t1"] # NoCheckpoint
    /\ DOMAIN store["t1"].candidate_information = InfoKeys
    /\ store["t1"].phase = "execution"
    /\ last.op = "next" /\ last.resumed.given /\ last.text = "question 1"
    /\ cycles["t1"] = 3

-----------------------------------------------------------------------------
(* C25: the order of the phases *)

PhaseOrder == <<"introduction", "execution", "q&a", "evaluation", "reporting">>
PhaseRank(phase) == CHOOSE i \in 1..Len(PhaseOrder) : PhaseOrder[i] = phase

\* the step is a call on `id` that ran the graph and returned its result
RanAndReturned(id) ==
    /\ last'.config = id /\ last'.invoked /\ last'.kind # "error"
    /\ now' = now
    /\ Checkpointed(id)

\* C25 as stated: the phase never moves to an earlier one, and a call that ran the graph
\* leaves the session in the phase it found it in only in introduction and in q&a
C25_OnlyIntroductionAndQandARepeat ==
    [][\A id \in ThreadIds :
        /\ Checkpointed(id) =>
                PhaseRank(store'[id].phase) >= PhaseRank(store[id].phase)
        /\ RanAndReturned(id) /\ store'[id].phase = store[id].phase =>
                store[id].phase \in {"introduction", "q&a"}]_vars

\* C25, amended: the phase never moves to an earlier one; a call that ran the graph leaves
\* the session in the phase it found it in only in introduction, in q&a and in evaluation,
\* and in evaluation only when the call invoked the graph with a fresh input
C25_PhaseNeverMovesBack ==
    [][\A id \in ThreadIds :
        /\ store'[id] # NoCheckpoint => store'[id].phase \in {PhaseOrder[i] : i \in 1..4}
        /\ Checkpointed(id) =>
                PhaseRank(store'[id].phase) >= PhaseRank(store[id].phase)
        /\ RanAndReturned(id) /\ store'[id].phase = store[id].phase =>
                \/ store[id].phase \in {"introduction", "q&a"}
                \/ store[id].phase = "evaluation" /\ ~last'.resumed.given]_vars

\* a next call after the evaluation ran the evaluation node once more
C25_Witness ==
    /\ store["t1"] # NoCheckpoint
    /\ store["t1"].phase = "evaluation"
    /\ last.op = "next" /\ last.invoked /\ ~last.resumed.given /\ last.kind = "end"
    /\ Len(SelectSeq(store["t1"].messages, LAMBDA m : m.content = "evaluation_json")) = 2

-----------------------------------------------------------------------------
(* C26: the questions of a session *)

\* how often question generation completed on the session: it logs one message each time
Generations(state) ==
    Len(SelectSeq(state.messages, LAMBDA m : m.content = "questions_json"))

\* C26: question generation completes at most once on a session, and only with the three
\* candidate fields filled; before it there are no questions, and once it has completed no
\* call changes the questions or generates them again
C26_QuestionsProducedOnce ==
    [][\A id \in ThreadIds :
        store'[id] # NoCheckpoint =>
            /\ Generations(store'[id]) <= 1
            /\ Generations(store'[id]) = 0 => store'[id].questions = <<>>
            /\ Generations(store'[id]) = 1 =>
                    DOMAIN store'[id].candidate_information = InfoKeys
            /\ store[id] # NoCheckpoint /\ Generations(store[id]) = 1 =>
                    store'[id].questions = store[id].questions]_vars

\* the question is answered and evaluated, and a further next call ran the graph again
C26_Witness ==
    /\ store["t1"] # NoCheckpoint
    /\ store["t1"].questions = Questions(1)
    /\ Len(store["t1"].answers) = 1
    /\ Generations(store["t1"]) = 1
    /\ last.op = "next" /\ last.invoked /\ ~last.resumed.given

-----------------------------------------------------------------------------
(* C27: the rules of a session *)

\* C27: no call on a session changes its rules, whichever client issues the call and
\* whichever branch of next is taken
C27_RulesFixedAtStart ==
    [][\A id \in ThreadIds :
        Checkpointed(id) => store'[id].rules = store[id].rules]_vars

-----------------------------------------------------------------------------
(* C28: who sets the phase *)

\* the step is a next call on `id` that took the branch of lines 62-67: it invoked the
\* graph with an input of its own, which carries a phase, and not with a resume value
InvokedWithPhase(id) ==
    /\ last'.op = "next" /\ last'.config = id /\ last'.invoked /\ ~last'.resumed.given
    /\ now' = now

\* C28 as stated: next never hands the graph a phase of its own: every next call that
\* runs the graph resumes it
C28_NextNeverAssignsPhase ==
    [][\A id \in ThreadIds : Checkpointed(id) => ~InvokedWithPhase(id)]_vars

\* C28, amended: the phase of a session changes only in a next call that resumes the graph,
\* by the result of the node resumed; a next call that invokes the graph with a phase of its
\* own does so on a session in evaluation and with the phase evaluation, and leaves it there
C28_PhaseChangesOnlyInNodes ==
    [][\A id \in ThreadIds :
        Checkpointed(id) =>
            /\ store'[id].phase # store[id].phase =>
                    /\ last'.op = "next" /\ last'.config = id /\ last'.resumed.given
                    /\ store[id].next \in {"candidate_information_collection_node",
                                          "answer_collection_node"}
            /\ InvokedWithPhase(id) =>
                    /\ store[id].phase = "evaluation"
                    /\ store'[id].phase = "evaluation"]_vars

\* a client of the other format ran the graph on an evaluated session with an input of its own
C28_Witness ==
    /\ store["t1"] # NoCheckpoint
    /\ store["t1"].phase = "evaluation"
    /\ store["t1"].next = "__end__"
    /\ last.op = "next" /\ last.invoked /\ ~last.resumed.given
    /\ last.format = "quick" /\ last.text = "__end__"

-----------------------------------------------------------------------------
(* C29: one interview whose LLM collaborator may fail *)

Replies == {Questions(n) : n \in 0..MaxQuestions} \cup Failures

\* the collaborator fails only while the history is shorter than this
MaxHistory == 9

NextFailure ==
    \/ \E fmt \in Formats : start(fmt, "t1")
    \/ \E m \in UserMessages, reply \in Replies :
            /\ store["t1"] # NoCheckpoint
            /\ reply \in Failures => Len(store["t1"].messages) < MaxHistory
            /\ next(ClientOf("t1"), "t1", m, reply)
    \/ end("t1")
    \/ \E d \in TickSteps : Tick(d)

SpecFailure == Init /\ [][NextFailure]_vars

\* C29: a failure of the LLM collaborator in question generation or in evaluation does
\* not abort the call: no next call ends with the failure raised to its caller
C29_LLMFailureIsAbsorbed ==
    last.op = "next" /\ last.kind = "error" =>
        last.text \notin {TransientFailure[1], MalformedOutput[1]}

-----------------------------------------------------------------------------
(* C30: the system directive in the history *)

SystemDirectives(state) == Len(SelectSeq(state.messages, LAMBDA m : m.type = "system"))

\* C30 as stated: the directive is injected at the first execution of the graph, and once:
\* the history of every session that was started holds exactly one system directive
C30_DirectiveFromFirstExecution ==
    \A id \in ThreadIds :
        store[id] # NoCheckpoint => SystemDirectives(store[id]) = 1

\* C30, amended: the history holds at most one system directive; it holds none while a
\* candidate field is missing and one, as its first entry, from the execution that filled
\* companies on, made for the role and companies of the candidate
C30_DirectiveOnceCompaniesKnown ==
    \A id \in ThreadIds :
        store[id] # NoCheckpoint =>
            LET state == store[id]
            IN  /\ SystemDirectives(state) <= 1
                /\ SystemDirectives(state) = 1 <=> "companies" \in DOMAIN state.candidate_information
                /\ SystemDirectives(state) = 1 =>
                        /\ state.messages[1].type = "system"
                        /\ state.messages[1].info = state.candidate_information

\* the directive is the one entry of its kind after the evaluation ran twice
C30_Witness ==
    /\ store["t1"] # NoCheckpoint
    /\ SystemDirectives(store["t1"]) = 1
    /\ store["t1"].messages[1].type = "system"
    /\ Len(SelectSeq(store["t1"].messages, LAMBDA m : m.content = "evaluation_json")) = 2
    /\ last.op = "end"

-----------------------------------------------------------------------------
(* C31: one caller in InterviewClient.next, the graph run one node at a time.      *)
(* `ran` holds the run in progress: the node to run next, the state it runs on,  *)
(* the resume value at hand, and how many nodes have completed in the run        *)

\* nodes a run completes before the engine is cut off
MaxSteps == 5

Running(node, state, resume, steps) ==
    [node |-> node, state |-> state, resume |-> resume, route |-> "",
     out |-> [kind |-> "running", steps |-> steps]]

\* lines 57-67: the graph is resumed in the node it stopped before, or entered through
\* the router with the input written to its channels
EngineEnters(t, id) ==
    LET cached_data == Entry(id)
        fmt == threads[t].format
        written == [store[id] EXCEPT
            !.messages = Append(@, Message("human", threads[t].message, EmptyInfo, <<>>)),
            !.phase = "evaluation",
            !.rules = interview_rules(fmt)]
    IN  /\ threads[t].pc = "loaded"
        /\ ran = NoRun
        /\ threads' = [threads EXCEPT ![t] = [@ EXCEPT !.pc = "running", !.count = cached_data.count]]
        /\ ran' = IF cached_data.last_message.type = "interrupt"
                  THEN Running(store[id].next, store[id],
                               ResumedWith(fmt, cached_data, threads[t].message, now), 0)
                  ELSE Running(phase_router_function(written), written, NoResume, 0)
        /\ UNCHANGED <<cache, store, now, last, calls, cycles, cacheGhost>>

\* the run is over with `response`: the checkpoint is kept, and an exception leaves next
EngineReturns(t, id, response) ==
    /\ store' = [store EXCEPT ![id] = [response.state EXCEPT !.ts = now]]
    /\ ran' = NoRun
    /\ IF response.kind = "error"
       THEN /\ threads' = [threads EXCEPT ![t] = Idle]
            /\ last' = Returned("next", id, threads[t].format, threads[t].message, "error",
                                response.value, ran.resume, TRUE)
       ELSE /\ threads' = [threads EXCEPT ![t] = [@ EXCEPT !.pc = "invoked", !.response = response]]
            /\ UNCHANGED last

\* the engine runs the node at hand: its update leads to the node after it, its interrupt
\* or exception ends the run, as does the end of the graph
EngineSteps(t, id, questions) ==
    /\ threads[t].pc = "running"
    /\ ran.out.steps < MaxSteps
    /\ IF ran.node = "__end__"
       THEN EngineReturns(t, id, [kind |-> "end", state |-> [ran.state EXCEPT !.next = "__end__"],
                                  value |-> ""])
       ELSE LET out == RunNode(ran.node, ran.state, ran.resume, questions)
            IN  IF out.kind = "update"
                THEN /\ ran' = Running(NodeAfter(ran.node, out.state), out.state, NoResume,
                                       ran.out.steps + 1)
                     /\ UNCHANGED <<store, threads, last>>
                ELSE EngineReturns(t, id, [out EXCEPT !.state = [ran.state EXCEPT !.next = ran.node]])
    /\ UNCHANGED <<cache, now, calls, cycles, cacheGhost>>

EngineRuns == \E n \in 0..MaxQuestions : EngineSteps("A", "t1", Questions(n))

\* CallerWrites with no run left behind
CallReturns(t, id) == CallerWrites(t, id)

NextEngine ==
    \/ \E m \in UserMessages : CallerLoads("A", last.format, "t1", m)
    \/ EngineEnters("A", "t1")
    \/ EngineRuns
    \/ CallReturns("A", "t1")

\* a call that is under way goes on: the thread that made it executes it line by line
SpecEngine ==
    /\ InitConcurrent
    /\ [][NextEngine]_vars
    /\ WF_vars(EngineEnters("A", "t1"))
    /\ WF_vars(EngineRuns)
    /\ WF_vars(CallReturns("A", "t1"))

\* C31: every next call on a valid session returns: once under way, the call reaches
\* the point where the caller has its reply (a prompt, the end-sentinel, or the exception
\* of a node), whatever the router and the nodes do in between
C31_NextReturns ==
    (threads["A"].pc # "idle") ~> (threads["A"].pc = "idle")

\* the run that filled companies has completed three nodes and stands before the fourth
C31_Witness ==
    /\ threads["A"].pc = "running"
    /\ ran.node = "answer_collection_node"
    /\ ran.out.steps = 3
    /\ ran.state.questions = Questions(2)

-----------------------------------------------------------------------------
(* C32: one interview driven by the client that started it, the graph runs of    *)
(* its next calls counted in `ran`                                              *)

\* graph runs of next calls after which no further next call is made
MaxRuns == 6

Counted(runs) == [NoRun EXCEPT !.out = [kind |-> "count", runs |-> runs]]
Runs == IF ran = NoRun THEN 0 ELSE ran.out.runs

nextCounted(fmt, id, user_message, questions) ==
    /\ Runs < MaxRuns
    /\ NextCall(fmt, id, user_message, questions)
    /\ ran' = IF last'.invoked THEN Counted(Runs + 1) ELSE ran

\* operations_map of end: no operation, one of a known type, and two with an unknown type
OperationLists ==
    {<<>>, <<[type |-> "email"]>>, <<[type |-> "api"], [type |-> "fax"]>>}

\* end with a list of operations: the loop of lines 94-114 passes over every one of them
end_operations(id, operations_map) == end(id)

NextTurns ==
    \/ \E fmt \in Formats : start(fmt, "t1")
    \/ \E m \in UserMessages, n \in 0..MaxQuestions :
            /\ store["t1"] # NoCheckpoint
            /\ nextCounted(ClientOf("t1"), "t1", m, Questions(n))
    \/ \E operations_map \in OperationLists : end_operations("t1", operations_map)

SpecTurns == Init /\ [][NextTurns]_vars

\* T of the client that started the interview
Ceiling(id) == max_questions(ClientOf(id))

\* C32: with the calls of one client, count never exceeds T = no_of_questions +
\* max_intro_questions, and the next calls of a session run the graph at most T times
C32_AtMostTRuns ==
    \A id \in ThreadIds :
        store[id] # NoCheckpoint /\ Cached(id) =>
            /\ Entry(id).count <= Ceiling(id)
            /\ id = "t1" => Runs <= Ceiling(id)

-----------------------------------------------------------------------------
(* C33: count against the checkpoint *)

\* every graph run of a next call on the interview has completed
NoRunFailed == Runs = cycles["t1"]

\* the fields and answers the checkpoint holds
Collected(state) == Cardinality(DOMAIN state.candidate_information) + Len(state.answers)

\* C33: while no graph run has failed and the session is not in evaluation, the cached
\* count is the number of candidate fields set plus the number of answers of the checkpoint
C33_CountIsFieldsPlusAnswers ==
    store["t1"] # NoCheckpoint /\ Cached("t1") /\ NoRunFailed
            /\ store["t1"].phase # "evaluation" =>
        Entry("t1").count = Collected(store["t1"])

\* three fields and the first of two answers, counted by four next calls
C33_Witness ==
    /\ store["t1"] # NoCheckpoint /\ Cached("t1") /\ NoRunFailed
    /\ store["t1"].phase = "q&a"
    /\ Len(store["t1"].answers) = 1
    /\ Entry("t1").count = 4
    /\ Runs = 4

-----------------------------------------------------------------------------
(* C34: the ceiling and the evaluation *)

\* the questioner returned as many questions as the rules ask for, and no run failed
AsManyQuestionsAsAsked(id) ==
    /\ store[id] # NoCheckpoint /\ Cached(id) /\ NoRunFailed
    /\ Len(store[id].questions) = store[id].rules.no_of_questions
    /\ Len(store[id].questions) >= 1

\* C34: with as many questions as the rules ask for and no failed run, the session is at
\* the ceiling only with the last answer recorded and the evaluation run: the cached
\* last message is then the evaluation text, of type text, and an end call returns it
C34_CeilingMeetsEvaluation ==
    AsManyQuestionsAsAsked("t1") /\ Entry("t1").count = Ceiling("t1") =>
        /\ Len(store["t1"].answers) = Len(store["t1"].questions)
        /\ store["t1"].phase = "evaluation"
        /\ store["t1"].next = "__end__"
        /\ Entry("t1").last_message = [text |-> "evaluation_json", type |-> "text"]
        /\ LastContent(store["t1"]) = "evaluation_json"
        /\ last.op = "next" => last.kind = "end" /\ last.text = "__end__"
        /\ last.op = "end" => last.kind = "report" /\ last.text = "evaluation_json"

\* two questions asked for and answered, the fifth next call reached the ceiling, then end
C34_Witness ==
    /\ AsManyQuestionsAsAsked("t1")
    /\ Len(store["t1"].questions) = 2
    /\ Entry("t1").count = 5
    /\ Runs = 5
    /\ last.op = "end" /\ last.text = "evaluation_json"

-----------------------------------------------------------------------------
(* C35: the question answer collection looks up *)

\* the engine is about to run answer collection
AtAnswerCollection ==
    threads["A"].pc = "running" /\ ran.node = "answer_collection_node"

\* C35: whenever answer collection is run there are fewer answers than questions, so
\* questions[len(answers)] exists: the node is not entered with no questions, nor with
\* every question answered
C35_QuestionIndexInRange ==
    AtAnswerCollection => Len(ran.state.answers) < Len(ran.state.questions)

-----------------------------------------------------------------------------
(* C36: the cache entry across a next call whose graph run raises *)

\* the step is a next call on `id` whose graph run raised
RunRaised(id) ==
    /\ last'.op = "next" /\ last'.config = id /\ last'.invoked /\ last'.kind = "error"
    /\ now' = now

\* C36: a next call whose graph run raises leaves the cache entry of the session as it
\* was, count, last message and last update time, and is not counted as a turn
C36_FailedRunLeavesEntry ==
    [][\A id \in ThreadIds :
        RunRaised(id) /\ Cached(id) =>
            /\ Contains(cache'.od, id)
            /\ Lookup(cache'.od, id) = Entry(id)
            /\ cache'.maxsize = cache.maxsize
            /\ cycles' = cycles]_vars

\* the questioner failed in the call that filled companies: the entry still holds the
\* prompt for companies and the count 2, while the checkpoint has moved on
C36_Witness ==
    /\ last.op = "next" /\ last.kind = "error" /\ last.text = TransientFailure[1]
    /\ Cached("t1")
    /\ Entry("t1").count = 2
    /\ Entry("t1").last_message.text = FieldPrompt("companies")
    /\ store["t1"].next = "question_generation_node"
    /\ "companies" \in DOMAIN store["t1"].candidate_information

-----------------------------------------------------------------------------
(* C37: what end leaves alone *)

\* C37: an end call changes neither the cache entry of the session nor its checkpoint,
\* runs no graph and counts no turn; its payload is the cached last message, and an end
\* call right after an end call returns what that one returned
C37_EndIsReadOnly ==
    [][last'.op = "end" =>
        LET id == last'.config
        IN  /\ Cached(id) /\ Contains(cache'.od, id)
            /\ Lookup(cache'.od, id) = Entry(id)
            /\ store' = store
            /\ ran' = ran /\ ~last'.invoked
            /\ calls' = calls /\ cycles' = cycles
            /\ last'.text = Entry(id).last_message.text
            /\ last.op = "end" => last' = last]_vars

\* end on the session that waits for the second field, one next call into it
C37_Witness ==
    /\ last.op = "end" /\ last.config = "t1"
    /\ last.text = FieldPrompt("role")
    /\ Cached("t1") /\ Entry("t1").count = 1
    /\ store["t1"].next = "candidate_information_collection_node"
    /\ Runs = 1

-----------------------------------------------------------------------------
(* C38: the states perception runs on *)

\* the engine is about to run perception
AtPerception ==
    threads["A"].pc = "running" /\ ran.node = "perception_node"

\* C38: whenever perception is run, candidate_information holds role and companies, the
\* rules are there and the phase is execution: its lookups do not fail
C38_PerceptionHasItsKeys ==
    AtPerception =>
        /\ {"role", "companies"} \subseteq DOMAIN ran.state.candidate_information
        /\ ran.state.rules # None
        /\ ran.state.phase = "execution"
        /\ RunNode("perception_node", ran.state, ran.resume, <<>>).kind = "update"

\* perception is next in the run that was resumed with the companies
C38_Witness ==
    /\ AtPerception
    /\ ran.out.steps = 1
    /\ DOMAIN ran.state.candidate_information = InfoKeys
    /\ ran.state.candidate_information["companies"] = "ada"
    /\ SystemDirectives(ran.state) = 0

-----------------------------------------------------------------------------
(* C39: next on a session whose cached last message is a final text *)

\* the cached last message of `id` is a text and its count is below the ceiling of its client
TextBelowCeiling(id) ==
    /\ store[id] # NoCheckpoint /\ Cached(id)
    /\ Entry(id).last_message.type = "text"
    /\ Entry(id).count < Ceiling(id)

\* the step is a next call on `id` that got as far as the graph
NextRan(id) ==
    /\ last'.op = "next" /\ last'.config = id
    /\ store'[id] # store[id]

\* C39: a next call on a session with a final text cached and count below the ceiling
\* makes no expiry check: it does not resume but runs the graph anew, with the message it
\* was given as the next entry of the history, whatever the age of the cache entry, and
\* with phase evaluation; when the run completes count is one more than before
C39_TextBranchSkipsExpiry ==
    [][\A id \in ThreadIds :
        TextBelowCeiling(id) /\ NextRan(id) =>
            LET before == store[id].messages
                after == store'[id].messages
            IN  /\ last'.invoked /\ ~last'.resumed.given
                /\ Len(after) > Len(before)
                /\ after[Len(before) + 1] = Message("human", last'.message, EmptyInfo, <<>>)
                /\ store'[id].phase = "evaluation"
                /\ last'.kind # "error" =>
                        /\ Lookup(cache'.od, id).count = Entry(id).count + 1
                        /\ Lookup(cache'.od, id).last_message =
                                [text |-> "evaluation_json", type |-> "text"]
                        /\ Len(after) = Len(before) + 2]_vars

\* six seconds after the start a message is passed on as it is, and evaluated
C39_Witness ==
    /\ store["t1"] # NoCheckpoint /\ Cached("t1")
    /\ last.op = "next" /\ last.invoked /\ ~last.resumed.given /\ last.kind = "end"
    /\ last.message = "ada"
    /\ now = MaxNow
    /\ store["t1"].messages[Len(store["t1"].messages) - 1] =
            Message("human", "ada", EmptyInfo, <<>>)
    /\ Entry("t1").count = Ceiling("t1")

-----------------------------------------------------------------------------
(* C40: the size of the cache after a set *)

\* what the cache held when set(key, ...) was called
SetSeen(c, key) ==
    [NoRun EXCEPT !.out = [kind |-> "set",
                           present |-> Contains(c.od, key),
                           size |-> Len(c.od),
                           oldest |-> IF c.od = <<>> THEN 0 ELSE c.od[1].key,
                           value |-> GetValue(c, key)]]

\* SimpleCache.set(key, value), with what it found on record
CacheSetSeen(key, value) ==
    /\ cache' = SetState(cache, key, value)
    /\ touched' = Touch(touched, key)
    /\ lastSet' = [lastSet EXCEPT ![key] = [hit |-> TRUE, value |-> value]]
    /\ ret' = [op |-> "set", key |-> key, hit |-> TRUE, value |-> None]
    /\ ran' = SetSeen(cache, key)
    /\ UNCHANGED <<store, now, last, calls, cycles, threads>>

NextSets ==
    \/ \E k \in Keys, v \in Values : CacheSetSeen(k, v)
    \/ \E k \in Keys : CacheGet(k)

SpecSets == InitCache /\ [][NextSets]_vars

\* the step is SimpleCache.set(key, ...)
SetCalled(key) == ret'.op = "set" /\ ret'.key = key

\* C40: after every set the cache holds at most maxsize entries; a set on a key already
\* present leaves that key with the value just given, and the same keys in the cache as
\* before, as many as before; and a cache of maxsize 0 is empty after every set
C40_SetKeepsWithinMaxsize ==
    [][\A key \in Keys :
        SetCalled(key) =>
            /\ Len(cache'.od) <= cache'.maxsize
            /\ Contains(cache.od, key) =>
                    /\ Contains(cache'.od, key)
                    /\ Lookup(cache'.od, key) = lastSet'[key].value
                    /\ Len(cache'.od) = Len(cache.od)
                    /\ KeysOf(cache'.od) = KeysOf(cache.od)
            /\ cache.maxsize = 0 => cache'.od = <<>>]_vars

\* a full cache of two entries whose older key was given a new value by the last call
C40_Witness ==
    /\ ret.op = "set"
    /\ ran.out.present
    /\ cache.maxsize = MaxCap /\ ran.out.size = MaxCap
    /\ ran.out.oldest = ret.key
    /\ ran.out.value # lastSet[ret.key].value
    /\ cache.od[Len(cache.od)] = [key |-> ret.key, value |-> lastSet[ret.key].value]

\* a set was called on a cache of maxsize 0
C40_WitnessZero ==
    ret.op = "set" /\ cache.maxsize = 0 /\ cache.od = <<>> /\ touched # <<>>

====
